---- MODULE Spec2Model ----
(***************************************************************************)
(* A model of the point-region quadtree of QuadTree.cpp (class CQuadTree)   *)
(* and of its page-based node pool.                                         *)
(*                                                                          *)
(* A pointer to a CNode is the index of its slot in the concatenation of    *)
(* the pool's pages (page k holds the slots (k-1)*m_pageSize+1 ..           *)
(* k*m_pageSize); NULL is nullptr.  TScalar is an unsigned integer of W     *)
(* bits, all of its arithmetic is taken modulo 2^W.                         *)
(*                                                                          *)
(* The model is the build in which assert() is active (SanityCheck is made  *)
(* of nothing else): a failing assertion aborts the program, which is       *)
(* recorded by the line of the assertion in the field "failed" of the tree  *)
(* (0 while no assertion has failed); an aborted program takes no step.     *)
(*                                                                          *)
(* The field "allocated" of a tree is a history of the pool, not a member   *)
(* of the class: the pointers AllocateNode has returned since Reset last    *)
(* rewound the free list, in the order they were returned.                  *)
(*                                                                          *)
(* Two CQuadTree instances are driven by the same calls: qt, whose page     *)
(* size is any of PageSizes, and ref, built with a single page large        *)
(* enough for every node the run can allocate.                              *)
(***************************************************************************)
EXTENDS Integers, Sequences, FiniteSets, TLC

\* Bit width of TScalar (uint64_t in the source, scaled down).
W == 2

\* Largest number of coordinates inserted in a run; an Insert of a coordinate
\* the tree already holds is not counted.
MaxInserts == 2

\* Largest number of Reset calls in a run (the one of the constructor apart).
MaxResets == 1

\* Largest page size qt is constructed with.
MaxPageSize == 3

RECURSIVE Pow2(_)
Pow2(n) == IF n = 0 THEN 1 ELSE 2 * Pow2(n - 1)

Modulus == Pow2(W)

\* std::numeric_limits<TScalar>::min() and ::max()
minValue == 0
maxValue == Modulus - 1

TScalar == minValue..maxValue

PageSizes == 1..MaxPageSize

\* A page size with which no run of the model needs a second page: the root,
\* four nodes for each of the at most W splits of an Insert, and the slot the
\* pool keeps in hand.
LargePageSize == 2 + 4 * W * MaxInserts

NULL == 0

\* failed = NoFailure: no assertion has failed.
NoFailure == 0

\* The do-while loop of Insert is cut after LoopCap iterations (recorded as
\* the failure LoopCapHit); the code has no such limit.
LoopCap == W + 2
LoopCapHit == 0 - LoopCap

----------------------------------------------------------------------------
\* CCoordinate

CCoordinate(_x, _y) == [x |-> _x, y |-> _y]

CCoordinate0 == CCoordinate(0, 0)

Wrap(v) == ((v % Modulus) + Modulus) % Modulus

CoordAdd(a, b) == CCoordinate(Wrap(a.x + b.x), Wrap(a.y + b.y))

CoordSub(a, b) == CCoordinate(Wrap(a.x - b.x), Wrap(a.y - b.y))

CoordDiv(a, b) == CCoordinate(a.x \div b.x, a.y \div b.y)

\* A comparison that forgets the second component.
CoordEqXOnly(a, b) == a.x = b.x

\* operator== of CCoordinate
CoordEq(a, b) == a.x = b.x /\ a.y = b.y

\* The scalars the calls are made with: the two values at each end of the
\* range, which is the whole range when W = 2.
TestScalars == {minValue, minValue + 1, maxValue - 1, maxValue}

TestCoords == {CCoordinate(px, py) : px \in TestScalars, py \in TestScalars}

\* The coordinates of the scalar domain.
Coords == {CCoordinate(px, py) : px \in TScalar, py \in TScalar}

----------------------------------------------------------------------------
\* CBounds

CBounds(_min, _max) == [min |-> _min, max |-> _max]

Contains(b, point) ==
  /\ point.x >= b.min.x
  /\ point.y >= b.min.y
  /\ point.x <= b.max.x
  /\ point.y <= b.max.y

----------------------------------------------------------------------------
\* CNode

\* A value-initialized CNode: CNode().
CNode ==
  [ m_regionBounds |-> CBounds(CCoordinate0, CCoordinate0),
    m_point        |-> CCoordinate0,
    m_pNorthWest   |-> NULL,
    m_pNorthEast   |-> NULL,
    m_pSouthEast   |-> NULL,
    m_pSouthWest   |-> NULL,
    m_nodeType     |-> "Undefined",
    pPoolNext      |-> NULL ]

\* The program aborts at the assertion of the given source line.
Abort(t, line) == [t EXCEPT !.failed = line]

\* F(v), the value v being computed once however often F uses it (a local
\* variable of the code).
With(v, F(_)) == CHOOSE r \in {F(x) : x \in {v}} : TRUE

----------------------------------------------------------------------------
\* The node pool

AllocatePage(t) ==
  LET base   == Len(t.nodes)
      n      == t.m_pageSize
      page   == [i \in 1..n |->
                   [CNode EXCEPT !.pPoolNext = IF i < n THEN base + i + 1 ELSE NULL]]
      pPages == base + 1
      t1     == [t EXCEPT !.nodes = t.nodes \o page, !.m_pages = @ + 1]
  IN  IF t.m_pageSize <= 0 THEN Abort(t, 496)
      ELSE IF t.m_pPoolRoot = NULL
        THEN IF t.m_pPoolHead # NULL
               THEN Abort(t1, 510)
               ELSE [t1 EXCEPT !.m_pPoolRoot = pPages, !.m_pPoolHead = pPages]
      ELSE IF t.m_pPoolHead # NULL
        THEN [t1 EXCEPT !.nodes[t.m_pPoolHead].pPoolNext = pPages]
      ELSE Abort(t1, 519)

\* The rest of AllocateNode once the pool has grown if it had to (lines
\* 530-537), with the slot handed out as it is, not blanked (no line 534).
TakeHeadNoBlank(t1) ==
  IF t1.failed # NoFailure THEN [tree |-> t1, node |-> NULL]
  ELSE IF t1.m_pPoolHead = NULL THEN [tree |-> Abort(t1, 530), node |-> NULL]
  ELSE IF t1.nodes[t1.m_pPoolHead].pPoolNext = NULL
    THEN [tree |-> Abort(t1, 531), node |-> NULL]
  ELSE [tree |-> [t1 EXCEPT !.m_pPoolHead = t1.nodes[t1.m_pPoolHead].pPoolNext,
                            !.allocated = Append(@, t1.m_pPoolHead)],
        node |-> t1.m_pPoolHead]

\* Lines 530-537 without line 536: the head of the free list is handed out
\* and stays the head.
TakeHeadStays(t1) ==
  IF t1.failed # NoFailure THEN [tree |-> t1, node |-> NULL]
  ELSE IF t1.m_pPoolHead = NULL THEN [tree |-> Abort(t1, 530), node |-> NULL]
  ELSE IF t1.nodes[t1.m_pPoolHead].pPoolNext = NULL
    THEN [tree |-> Abort(t1, 531), node |-> NULL]
  ELSE LET pAllocatedNode == t1.m_pPoolHead
           pPoolNext      == t1.nodes[pAllocatedNode].pPoolNext
       IN  [tree |-> [t1 EXCEPT !.nodes[pAllocatedNode] =
                                   [CNode EXCEPT !.pPoolNext = pPoolNext],
                                !.allocated = Append(@, pAllocatedNode)],
            node |-> pAllocatedNode]

\* Lines 530-537 of AllocateNode: the head of the free list is blanked, its
\* link kept, and handed out.
TakeHead(t1) ==
  IF t1.failed # NoFailure THEN [tree |-> t1, node |-> NULL]
  ELSE IF t1.m_pPoolHead = NULL THEN [tree |-> Abort(t1, 530), node |-> NULL]
  ELSE IF t1.nodes[t1.m_pPoolHead].pPoolNext = NULL
    THEN [tree |-> Abort(t1, 531), node |-> NULL]
  ELSE LET pAllocatedNode == t1.m_pPoolHead
           pPoolNext      == t1.nodes[pAllocatedNode].pPoolNext
       IN  [tree |-> [t1 EXCEPT !.nodes[pAllocatedNode] =
                                   [CNode EXCEPT !.pPoolNext = pPoolNext],
                                !.m_pPoolHead = pPoolNext,
                                !.allocated = Append(@, pAllocatedNode)],
            node |-> pAllocatedNode]

\* An AllocateNode that takes a new page only once the free list is empty
\* (line 525 without its second test).
AllocateNodeLateGrow(t) ==
  With(IF t.m_pPoolHead = NULL THEN AllocatePage(t) ELSE t, TakeHead)

\* An AllocateNode that takes a new page while two slots are still free.
AllocateNodeEarlyGrow(t) ==
  With(IF \/ t.m_pPoolHead = NULL
          \/ t.nodes[t.m_pPoolHead].pPoolNext = NULL
          \/ t.nodes[t.nodes[t.m_pPoolHead].pPoolNext].pPoolNext = NULL
         THEN AllocatePage(t)
         ELSE t,
       TakeHead)

\* CQuadTree::AllocateNode: the tree and the pointer returned.
AllocateNode(t) ==
  With(IF t.m_pPoolHead = NULL \/ t.nodes[t.m_pPoolHead].pPoolNext = NULL
         THEN AllocatePage(t)
         ELSE t,
       TakeHead)

\* The node n of t after InitializeAsRegion(_regionBounds).
InitializeAsRegion(t, n, _regionBounds) ==
  LET t1 == [t EXCEPT !.nodes[n].m_regionBounds = _regionBounds,
                      !.nodes[n].m_nodeType = "Region"]
  IN  IF ~CoordEq(t1.nodes[n].m_point, CCoordinate0) THEN Abort(t1, 190) ELSE t1

AllocateRegionNode(t, regionBounds) ==
  With(AllocateNode(t), LAMBDA a :
    IF a.tree.failed # NoFailure THEN a
    ELSE IF a.node = NULL THEN [tree |-> Abort(a.tree, 551), node |-> NULL]
    ELSE [tree |-> InitializeAsRegion(a.tree, a.node, regionBounds), node |-> a.node])

----------------------------------------------------------------------------
\* CQuadTree: Reset and the constructor

\* Bounds that stop one short of the largest scalar.
RootBoundsShort ==
  CBounds(CCoordinate(minValue, minValue), CCoordinate(maxValue - 1, maxValue - 1))

\* The bounds Reset gives the root: the whole range of TScalar in both axes.
RootBounds ==
  CBounds(CCoordinate(minValue, minValue), CCoordinate(maxValue, maxValue))

\* A Reset that does not rewind the free list (no line 376).
ResetNoRewind(t) ==
  With(AllocateRegionNode([t EXCEPT !.allocated = << >>], RootBounds),
       LAMBDA a :
         IF a.tree.failed # NoFailure THEN a.tree
         ELSE [a.tree EXCEPT !.m_pTreeRoot = a.node])

Reset(t) ==
  With(AllocateRegionNode([t EXCEPT !.m_pPoolHead = t.m_pPoolRoot,
                                    !.allocated = << >>], RootBounds),
       LAMBDA a :
         IF a.tree.failed # NoFailure THEN a.tree
         ELSE [a.tree EXCEPT !.m_pTreeRoot = a.node])

\* The members before the body of the constructor runs.
Unconstructed(pageSize) ==
  [ nodes       |-> << >>,
    m_pTreeRoot |-> NULL,
    m_pageSize  |-> pageSize,
    m_pPoolHead |-> NULL,
    m_pPoolRoot |-> NULL,
    m_pages     |-> 0,
    failed      |-> NoFailure,
    allocated   |-> << >> ]

CQuadTree(pageSize) ==
  IF pageSize <= 0 THEN Abort(Unconstructed(pageSize), 303)
  ELSE Reset(Unconstructed(pageSize))

----------------------------------------------------------------------------
\* CNode: Find, Split, ContainingSubRegion

\* The first child of the node n, in the order NW, NE, SE, SW, whose bounds
\* contain the point (lines 200-216 and 274-290).  That the last child contains
\* the point when the others do not is the assertion of the given line.
Descend(t, n, point, line) ==
  LET node == t.nodes[n]
  IN  IF Contains(t.nodes[node.m_pNorthWest].m_regionBounds, point)
        THEN [node |-> node.m_pNorthWest, failed |-> NoFailure]
      ELSE IF Contains(t.nodes[node.m_pNorthEast].m_regionBounds, point)
        THEN [node |-> node.m_pNorthEast, failed |-> NoFailure]
      ELSE IF Contains(t.nodes[node.m_pSouthEast].m_regionBounds, point)
        THEN [node |-> node.m_pSouthEast, failed |-> NoFailure]
      ELSE IF Contains(t.nodes[node.m_pSouthWest].m_regionBounds, point)
        THEN [node |-> node.m_pSouthWest, failed |-> NoFailure]
      ELSE [node |-> NULL, failed |-> line]

\* CNode::Find called on the node pCurrentNode: the result, the node found
\* (*pFoundNode) and the assertion that failed, if any.
RECURSIVE CNodeFind(_, _, _)
CNodeFind(t, pCurrentNode, point) ==
  LET node == t.nodes[pCurrentNode]
  IN  IF node.m_pNorthWest # NULL
        THEN IF node.m_pNorthEast = NULL \/ node.m_pSouthEast = NULL
                  \/ node.m_pSouthWest = NULL
               THEN [result |-> "Aborted", pFoundNode |-> NULL, failed |-> 198]
               ELSE With(Descend(t, pCurrentNode, point, 214), LAMBDA d :
                      IF d.failed # NoFailure
                        THEN [result |-> "Aborted", pFoundNode |-> NULL,
                              failed |-> d.failed]
                        ELSE CNodeFind(t, d.node, point))
      ELSE IF node.m_nodeType = "Region"
        THEN [result |-> "NoEntry", pFoundNode |-> pCurrentNode, failed |-> NoFailure]
      ELSE IF node.m_nodeType # "Leaf"
        THEN [result |-> "Aborted", pFoundNode |-> pCurrentNode, failed |-> 225]
      ELSE [result     |-> IF CoordEq(node.m_point, point) THEN "Success" ELSE "NoEntry",
            pFoundNode |-> pCurrentNode,
            failed     |-> NoFailure]

\* Child bounds that share the centre row and column (centerMax = centerMin).
SplitBoundsOverlap(b) ==
  LET min       == b.min
      max       == b.max
      centerMin == CoordAdd(min, CoordDiv(CoordSub(max, min), CCoordinate(2, 2)))
      centerMax == centerMin
  IN  [ northWest |-> CBounds(min, centerMin),
        northEast |-> CBounds(CCoordinate(centerMax.x, min.y),
                              CCoordinate(max.x, centerMin.y)),
        southEast |-> CBounds(centerMax, max),
        southWest |-> CBounds(CCoordinate(min.x, centerMax.y),
                              CCoordinate(centerMin.x, max.y)) ]

\* Child bounds whose NW child is the whole node: a Split that separates
\* nothing.
SplitBoundsNoProgress(b) ==
  LET min       == b.min
      max       == b.max
      centerMin == CoordAdd(min, CoordDiv(CoordSub(max, min), CCoordinate(2, 2)))
      centerMax == CoordAdd(centerMin, CCoordinate(1, 1))
  IN  [ northWest |-> CBounds(min, max),
        northEast |-> CBounds(CCoordinate(centerMax.x, min.y),
                              CCoordinate(max.x, centerMin.y)),
        southEast |-> CBounds(centerMax, max),
        southWest |-> CBounds(CCoordinate(min.x, centerMax.y),
                              CCoordinate(centerMin.x, max.y)) ]

\* Child bounds cut one unit from the minimum corner instead of at the
\* centre (centerMin = min).
SplitBoundsThin(b) ==
  LET min       == b.min
      max       == b.max
      centerMin == min
      centerMax == CoordAdd(centerMin, CCoordinate(1, 1))
  IN  [ northWest |-> CBounds(min, centerMin),
        northEast |-> CBounds(CCoordinate(centerMax.x, min.y),
                              CCoordinate(max.x, centerMin.y)),
        southEast |-> CBounds(centerMax, max),
        southWest |-> CBounds(CCoordinate(min.x, centerMax.y),
                              CCoordinate(centerMin.x, max.y)) ]

\* Child bounds whose centre is computed as (min + max) / 2, a sum that
\* wraps.
SplitBoundsMidpointSum(b) ==
  LET min       == b.min
      max       == b.max
      centerMin == CoordDiv(CoordAdd(min, max), CCoordinate(2, 2))
      centerMax == CoordAdd(centerMin, CCoordinate(1, 1))
  IN  [ northWest |-> CBounds(min, centerMin),
        northEast |-> CBounds(CCoordinate(centerMax.x, min.y),
                              CCoordinate(max.x, centerMin.y)),
        southEast |-> CBounds(centerMax, max),
        southWest |-> CBounds(CCoordinate(min.x, centerMax.y),
                              CCoordinate(centerMin.x, max.y)) ]

\* The bounds of the four children Split gives a node of bounds b.
SplitBounds(b) ==
  LET min       == b.min
      max       == b.max
      centerMin == CoordAdd(min, CoordDiv(CoordSub(max, min), CCoordinate(2, 2)))
      centerMax == CoordAdd(centerMin, CCoordinate(1, 1))
  IN  [ northWest |-> CBounds(min, centerMin),
        northEast |-> CBounds(CCoordinate(centerMax.x, min.y),
                              CCoordinate(max.x, centerMin.y)),
        southEast |-> CBounds(centerMax, max),
        southWest |-> CBounds(CCoordinate(min.x, centerMax.y),
                              CCoordinate(centerMin.x, max.y)) ]

\* Lines 237-256 of Split: the four children of the node n are allocated, in
\* the order NW, NE, SE, SW, and linked.
SplitChildren(t, n) ==
  LET b == SplitBounds(t.nodes[n].m_regionBounds)
  IN  With(AllocateRegionNode(t, b.northWest), LAMBDA nw :
      With(AllocateRegionNode(nw.tree, b.northEast), LAMBDA ne :
      With(AllocateRegionNode(ne.tree, b.southEast), LAMBDA se :
      With(AllocateRegionNode(se.tree, b.southWest), LAMBDA sw :
        IF nw.tree.failed # NoFailure THEN nw.tree
        ELSE IF ne.tree.failed # NoFailure THEN ne.tree
        ELSE IF se.tree.failed # NoFailure THEN se.tree
        ELSE IF sw.tree.failed # NoFailure THEN sw.tree
        ELSE [sw.tree EXCEPT !.nodes[n].m_pNorthWest = nw.node,
                             !.nodes[n].m_pNorthEast = ne.node,
                             !.nodes[n].m_pSouthEast = se.node,
                             !.nodes[n].m_pSouthWest = sw.node]))))

\* A Split that leaves the type and the point of the node as they were (no
\* lines 258-259).
SplitKeepsType(t, n) ==
  LET node == t.nodes[n]
  IN  IF node.m_pNorthWest # NULL THEN Abort(t, 231)
      ELSE IF node.m_pNorthEast # NULL THEN Abort(t, 232)
      ELSE IF node.m_pSouthEast # NULL THEN Abort(t, 233)
      ELSE IF node.m_pSouthWest # NULL THEN Abort(t, 234)
      ELSE SplitChildren(t, n)

\* A Split that leaves the point of the node as it was (no line 259).
SplitKeepsPoint(t, n) ==
  LET node == t.nodes[n]
  IN  IF node.m_pNorthWest # NULL THEN Abort(t, 231)
      ELSE IF node.m_pNorthEast # NULL THEN Abort(t, 232)
      ELSE IF node.m_pSouthEast # NULL THEN Abort(t, 233)
      ELSE IF node.m_pSouthWest # NULL THEN Abort(t, 234)
      ELSE With(SplitChildren(t, n), LAMBDA t1 :
             IF t1.failed # NoFailure THEN t1
             ELSE [t1 EXCEPT !.nodes[n].m_nodeType = "Region"])

\* CNode::Split on the node n.
Split(t, n) ==
  LET node == t.nodes[n]
  IN  IF node.m_pNorthWest # NULL THEN Abort(t, 231)
      ELSE IF node.m_pNorthEast # NULL THEN Abort(t, 232)
      ELSE IF node.m_pSouthEast # NULL THEN Abort(t, 233)
      ELSE IF node.m_pSouthWest # NULL THEN Abort(t, 234)
      ELSE With(SplitChildren(t, n), LAMBDA t1 :
             IF t1.failed # NoFailure THEN t1
             ELSE [t1 EXCEPT !.nodes[n].m_nodeType = "Region",
                             !.nodes[n].m_point = CCoordinate0])

\* CNode::ContainingSubRegion on the node n: the pointer returned and the
\* assertion that failed, if any.
ContainingSubRegion(t, n, point) ==
  LET node == t.nodes[n]
  IN  IF ~Contains(node.m_regionBounds, point)
        THEN [node |-> NULL, failed |-> NoFailure]
      ELSE IF node.m_pNorthWest # NULL
        THEN IF node.m_nodeType # "Region" THEN [node |-> NULL, failed |-> 269]
             ELSE IF node.m_pNorthEast = NULL THEN [node |-> NULL, failed |-> 270]
             ELSE IF node.m_pSouthEast = NULL THEN [node |-> NULL, failed |-> 271]
             ELSE IF node.m_pSouthWest = NULL THEN [node |-> NULL, failed |-> 272]
             ELSE Descend(t, n, point, 288)
      ELSE [node |-> NULL, failed |-> NoFailure]

----------------------------------------------------------------------------
\* CQuadTree: Insert and Find

\* The node becomes a Leaf and its point is not stored.
SetLeafNoPoint(t, n, point) == [t EXCEPT !.nodes[n].m_nodeType = "Leaf"]

\* The node holds the point and keeps its type.
SetLeafKeepsType(t, n, point) == [t EXCEPT !.nodes[n].m_point = point]

\* The node n becomes a Leaf that holds the point (lines 346-347, 350-351
\* and 358-359 of Insert).
SetLeaf(t, n, point) ==
  [t EXCEPT !.nodes[n].m_nodeType = "Leaf", !.nodes[n].m_point = point]

\* Only the node of the new point becomes a Leaf (no lines 346-347).
SetLeavesNewOnly(t, pExistingSubRegion, existingPoint, pSubRegion, point) ==
  SetLeaf(t, pSubRegion, point)

\* Lines 345-351 of Insert: the two nodes the loop ends with become the
\* leaves of the existing point and of the new one.
SetLeaves(t, pExistingSubRegion, existingPoint, pSubRegion, point) ==
  SetLeaf(SetLeaf(t, pExistingSubRegion, existingPoint), pSubRegion, point)

\* The do-while loop of Insert (lines 336-342), entered with pSubRegion:
\* the tree, pExistingSubRegion and pSubRegion when the loop is left.
RECURSIVE SplitLoop(_, _, _, _, _)
SplitLoop(t, pSubRegion, existingPoint, point, iterations) ==
  LET stop(tree) == [tree |-> tree, pExistingSubRegion |-> NULL, pSubRegion |-> NULL]
  IN  With(Split(t, pSubRegion), LAMBDA t1 :
        IF t1.failed # NoFailure THEN stop(t1)
        ELSE
          With(ContainingSubRegion(t1, pSubRegion, existingPoint), LAMBDA e :
          With(ContainingSubRegion(t1, pSubRegion, point), LAMBDA s :
            IF e.failed # NoFailure THEN stop(Abort(t1, e.failed))
            ELSE IF s.failed # NoFailure THEN stop(Abort(t1, s.failed))
            ELSE IF e.node = NULL \/ s.node = NULL THEN stop(Abort(t1, 341))
            ELSE IF e.node = s.node
              THEN IF iterations + 1 >= LoopCap
                     THEN stop(Abort(t1, LoopCapHit))
                     ELSE SplitLoop(t1, s.node, existingPoint, point, iterations + 1)
            ELSE [tree |-> t1, pExistingSubRegion |-> e.node, pSubRegion |-> s.node])))

\* Lines 323-360 of Insert, pFound being the node CNode::Find ended at
\* without finding the point.
InsertAt(t, pFound, point) ==
  LET aborted(line) == [tree |-> Abort(t, line), result |-> "Aborted"]
      found == t.nodes[pFound]
  IN  IF found.m_nodeType = "Leaf"
        THEN IF found.m_pNorthWest # NULL THEN aborted(326)
             ELSE IF found.m_pNorthEast # NULL THEN aborted(327)
             ELSE IF found.m_pSouthEast # NULL THEN aborted(328)
             ELSE IF found.m_pSouthWest # NULL THEN aborted(329)
             ELSE With(SplitLoop(t, pFound, found.m_point, point, 0), LAMBDA loop :
                    IF loop.tree.failed # NoFailure
                      THEN [tree |-> loop.tree, result |-> "Aborted"]
                      ELSE [tree   |-> SetLeaves(loop.tree, loop.pExistingSubRegion,
                                                 found.m_point, loop.pSubRegion, point),
                            result |-> "Success"])
      ELSE IF found.m_nodeType # "Region" THEN aborted(356)
      ELSE [tree |-> SetLeaf(t, pFound, point), result |-> "Success"]

\* CQuadTree::Insert: the tree and the result returned.
Insert(t, point) ==
  LET aborted(line) == [tree |-> Abort(t, line), result |-> "Aborted"]
  IN  IF t.m_pTreeRoot = NULL THEN aborted(310)
      ELSE IF ~Contains(t.nodes[t.m_pTreeRoot].m_regionBounds, point)
        THEN aborted(313)
      ELSE With(CNodeFind(t, t.m_pTreeRoot, point), LAMBDA f :
             IF f.failed # NoFailure THEN aborted(f.failed)
             ELSE IF f.pFoundNode = NULL THEN aborted(315)
             ELSE IF f.result = "Success"
               THEN IF ~CoordEq(t.nodes[f.pFoundNode].m_point, point)
                      THEN aborted(318)
                      ELSE [tree |-> t, result |-> "DuplicateEntry"]
             ELSE InsertAt(t, f.pFoundNode, point))

\* A Find that takes a node from the pool on its way.
FindAllocating(t, point) ==
  With(CNodeFind(t, t.m_pTreeRoot, point), LAMBDA f :
    [tree |-> AllocateNode(t).tree, result |-> f.result])

\* CQuadTree::Find: the tree and the result returned.
Find(t, point) ==
  IF t.m_pTreeRoot = NULL THEN [tree |-> Abort(t, 368), result |-> "Aborted"]
  ELSE IF ~Contains(t.nodes[t.m_pTreeRoot].m_regionBounds, point)
    THEN [tree |-> Abort(t, 370), result |-> "Aborted"]
  ELSE With(CNodeFind(t, t.m_pTreeRoot, point), LAMBDA f :
         IF f.failed # NoFailure
           THEN [tree |-> Abort(t, f.failed), result |-> "Aborted"]
           ELSE [tree |-> t, result |-> f.result])

----------------------------------------------------------------------------
\* CQuadTree: SanityCheck

\* The line of the first of the assertions <<condition, line>> that fails,
\* NoFailure when none does.
RECURSIVE FirstFailure(_)
FirstFailure(assertions) ==
  IF assertions = << >> THEN NoFailure
  ELSE IF ~Head(assertions)[1] THEN Head(assertions)[2]
  ELSE FirstFailure(Tail(assertions))

\* The first failure of a sequence of checks, each the line of a failed
\* assertion or NoFailure.
RECURSIVE FirstOf(_)
FirstOf(checks) ==
  IF checks = << >> THEN NoFailure
  ELSE IF Head(checks) # NoFailure THEN Head(checks)
  ELSE FirstOf(Tail(checks))

\* The assertions of lines 413-448 on a node of bounds b with the children
\* nw, ne, se, sw.
ChildBoundsCheck(b, nw, ne, se, sw) ==
  FirstFailure(<<
    <<Contains(b, nw.min), 413>>, <<Contains(b, nw.max), 414>>,
    <<Contains(b, ne.min), 415>>, <<Contains(b, ne.max), 416>>,
    <<Contains(b, se.min), 417>>, <<Contains(b, se.max), 418>>,
    <<Contains(b, sw.min), 419>>, <<Contains(b, sw.max), 420>>,
    <<nw.min.x <  ne.min.x, 422>>, <<nw.min.y =  ne.min.y, 423>>,
    <<nw.max.x <  ne.min.x, 424>>, <<nw.max.x <  ne.max.x, 425>>,
    <<nw.min.y <  ne.max.y, 426>>, <<nw.max.y =  ne.max.y, 427>>,
    <<ne.min.x =  se.min.x, 429>>, <<ne.min.y <  se.min.y, 430>>,
    <<ne.max.x >  se.min.x, 431>>, <<ne.max.x =  se.max.x, 432>>,
    <<ne.min.y <  se.max.y, 433>>, <<ne.max.y <  se.max.y, 434>>,
    <<se.min.x >  sw.min.x, 436>>, <<se.min.y =  sw.min.y, 437>>,
    <<se.max.x >  sw.min.x, 438>>, <<se.max.x >  sw.max.x, 439>>,
    <<se.min.y <  sw.max.y, 440>>, <<se.max.y =  sw.max.y, 441>>,
    <<sw.min.x =  nw.min.x, 443>>, <<sw.min.y >  nw.min.y, 444>>,
    <<sw.max.x >  nw.min.x, 445>>, <<sw.max.x =  nw.max.x, 446>>,
    <<sw.min.y >  nw.max.y, 447>>, <<sw.max.y >  nw.max.y, 448>> >>)

\* The line of the first assertion of SanityCheckChild_Recursive(pChild) that
\* fails, NoFailure when none does.
RECURSIVE SanityCheckChild_Recursive(_, _)
SanityCheckChild_Recursive(t, pChild) ==
  IF pChild = NULL THEN 389
  ELSE
    LET node == t.nodes[pChild]
        b    == node.m_regionBounds
        own  == FirstFailure(<<
                  <<b # CBounds(CCoordinate0, CCoordinate0), 390>>,
                  <<b.max.x >= b.min.x, 391>>, <<b.max.y >= b.min.y, 392>>,
                  <<b.min.x <= b.max.x, 393>>, <<b.min.y <= b.max.y, 394>> >>)
        \* lines 450-475: one child
        child(p, line) ==
          IF t.nodes[p].m_nodeType = "Leaf" /\ ~Contains(b, t.nodes[p].m_point)
            THEN line
            ELSE SanityCheckChild_Recursive(t, p)
    IN  IF own # NoFailure THEN own
        ELSE IF node.m_nodeType = "Leaf"
          THEN FirstFailure(<<
                 <<node.m_pNorthWest = NULL, 398>>, <<node.m_pNorthEast = NULL, 399>>,
                 <<node.m_pSouthEast = NULL, 400>>, <<node.m_pSouthWest = NULL, 401>>,
                 <<Contains(b, node.m_point), 402>> >>)
        ELSE IF node.m_nodeType = "Region"
          THEN IF node.m_point # CCoordinate(0, 0) THEN 405
               ELSE IF node.m_pNorthWest # NULL
                 THEN IF node.m_pNorthEast = NULL THEN 409
                      ELSE IF node.m_pSouthEast = NULL THEN 410
                      ELSE IF node.m_pSouthWest = NULL THEN 411
                      ELSE FirstOf(<<
                             ChildBoundsCheck(b,
                               t.nodes[node.m_pNorthWest].m_regionBounds,
                               t.nodes[node.m_pNorthEast].m_regionBounds,
                               t.nodes[node.m_pSouthEast].m_regionBounds,
                               t.nodes[node.m_pSouthWest].m_regionBounds),
                             child(node.m_pNorthWest, 452),
                             child(node.m_pNorthEast, 459),
                             child(node.m_pSouthEast, 466),
                             child(node.m_pSouthWest, 472) >>)
               ELSE FirstFailure(<<
                      <<node.m_pNorthWest = NULL, 479>>, <<node.m_pNorthEast = NULL, 480>>,
                      <<node.m_pSouthEast = NULL, 481>>, <<node.m_pSouthWest = NULL, 482>> >>)
        ELSE IF node.m_nodeType = "Undefined" THEN 486
        ELSE 489

\* CQuadTree::SanityCheck: the tree, aborted when an assertion fails.
SanityCheck(t) ==
  LET line == SanityCheckChild_Recursive(t, t.m_pTreeRoot)
  IN  IF line # NoFailure THEN Abort(t, line) ELSE t

----------------------------------------------------------------------------
\* The logical tree: what a tree holds, whatever the slots its nodes occupy.

RECURSIVE Logical(_, _)
Logical(t, n) ==
  LET node == t.nodes[n]
  IN  [ m_nodeType     |-> node.m_nodeType,
        m_point        |-> node.m_point,
        m_regionBounds |-> node.m_regionBounds,
        children       |->
          IF node.m_pNorthWest = NULL THEN << >>
          ELSE << Logical(t, node.m_pNorthWest), Logical(t, node.m_pNorthEast),
                  Logical(t, node.m_pSouthEast), Logical(t, node.m_pSouthWest) >> ]

\* The result of Find for every coordinate of the domain.
FindOutcomes(t) == [p \in Coords |-> Find(t, p).result]

----------------------------------------------------------------------------
\* The state

VARIABLES
  qt,          \* the CQuadTree under test
  ref,         \* the CQuadTree with one large page, given the same calls
  lastOp,      \* the last call made: "none" before the constructor has run
  lastResult,  \* what the last Insert or Find returned on qt
  refResult,   \* what the last Insert or Find returned on ref
  inserted,    \* the coordinates passed to Insert since the last Reset
  nInserts,    \* the number of Insert calls made with a coordinate not in inserted
  nResets,     \* the number of Reset calls made
  beforeReset  \* qt when Reset was called: the largest number of slots it had
               \* handed out at any such call, and its pages at the last one

vars ==
  <<qt, ref, lastOp, lastResult, refResult, inserted, nInserts, nResets, beforeReset>>

Init ==
  /\ qt \in {Unconstructed(pageSize) : pageSize \in PageSizes}
  /\ ref = Unconstructed(LargePageSize)
  /\ lastOp = "none"
  /\ lastResult = "none"
  /\ refResult = "none"
  /\ inserted = {}
  /\ nInserts = 0
  /\ nResets = 0
  /\ beforeReset = [allocated |-> 0, pages |-> 0]

\* The program runs: both trees are constructed and no assertion has failed.
Running ==
  /\ lastOp # "none"
  /\ qt.failed = NoFailure
  /\ ref.failed = NoFailure

Construct ==
  /\ lastOp = "none"
  /\ qt' = CQuadTree(qt.m_pageSize)
  /\ ref' = CQuadTree(ref.m_pageSize)
  /\ lastOp' = "Construct"
  /\ UNCHANGED <<lastResult, refResult, inserted, nInserts, nResets, beforeReset>>

\* A call of Insert on both trees.
InsertCall(point) ==
  /\ qt' = Insert(qt, point).tree
  /\ ref' = Insert(ref, point).tree
  /\ lastOp' = "Insert"
  /\ lastResult' = Insert(qt, point).result
  /\ refResult' = Insert(ref, point).result
  /\ inserted' = inserted \cup {point}
  /\ nInserts' = IF point \in inserted THEN nInserts ELSE nInserts + 1
  /\ UNCHANGED <<nResets, beforeReset>>

DoInsert(point) ==
  /\ Running
  /\ (nInserts < MaxInserts \/ point \in inserted)
  /\ InsertCall(point)

\* An Insert of a run that may insert MaxInserts coordinates after each
\* Reset.
DoInsertAfterReset(point) ==
  /\ Running
  /\ (Cardinality(inserted) < MaxInserts \/ point \in inserted)
  /\ InsertCall(point)

DoFind(point) ==
  /\ Running
  /\ qt' = Find(qt, point).tree
  /\ ref' = Find(ref, point).tree
  /\ lastOp' = "Find"
  /\ lastResult' = Find(qt, point).result
  /\ refResult' = Find(ref, point).result
  /\ UNCHANGED <<inserted, nInserts, nResets, beforeReset>>

DoReset ==
  /\ Running
  /\ nResets < MaxResets
  /\ qt' = Reset(qt)
  /\ ref' = Reset(ref)
  /\ lastOp' = "Reset"
  /\ lastResult' = "none"
  /\ refResult' = "none"
  /\ inserted' = {}
  /\ nResets' = nResets + 1
  /\ beforeReset' =
       [ allocated |-> IF Len(qt.allocated) > beforeReset.allocated
                         THEN Len(qt.allocated) ELSE beforeReset.allocated,
         pages     |-> qt.m_pages ]
  /\ UNCHANGED nInserts

DoSanityCheck ==
  /\ Running
  /\ qt' = SanityCheck(qt)
  /\ ref' = SanityCheck(ref)
  /\ lastOp' = "SanityCheck"
  /\ lastResult' = "none"
  /\ refResult' = "none"
  /\ UNCHANGED <<inserted, nInserts, nResets, beforeReset>>

Next ==
  \/ Construct
  \/ \E point \in TestCoords : DoInsert(point)
  \/ \E point \in TestCoords : DoFind(point)
  \/ DoReset
  \/ DoSanityCheck

Spec == Init /\ [][Next]_vars

\* The runs of the calls that change the tree: the constructor, Insert and
\* Reset.
NextBuild ==
  \/ Construct
  \/ \E point \in TestCoords : DoInsert(point)
  \/ DoReset

SpecBuild == Init /\ [][NextBuild]_vars

\* The runs in which the pool is reused: a loop of Reset and Inserts as in
\* main, with up to MaxInserts coordinates of the diagonal after each Reset.
ReuseCoords == {CCoordinate(v, v) : v \in TestScalars}

NextReuse ==
  \/ Construct
  \/ \E point \in ReuseCoords : DoInsertAfterReset(point)
  \/ DoReset

SpecReuse == Init /\ [][NextReuse]_vars

----------------------------------------------------------------------------
\* Definitions the properties are stated with

\* The constructor has returned: the tree has a root.
Built(t) == t.m_pTreeRoot # NULL

Root(t) == t.nodes[t.m_pTreeRoot]

HasChildren(node) == node.m_pNorthWest # NULL

\* The child pointers of a node, in the order NW, NE, SE, SW.
ChildPointers(node) ==
  <<node.m_pNorthWest, node.m_pNorthEast, node.m_pSouthEast, node.m_pSouthWest>>

\* The walks of the tree below stop at this depth (the root is at depth 0).
MaxDepth == W + 2

\* The slots reached from the slot n by at most depth child pointers.
RECURSIVE Below(_, _, _)
Below(t, n, depth) ==
  IF n = NULL THEN {}
  ELSE IF depth = 0 THEN {n}
  ELSE {n} \cup UNION {Below(t, ChildPointers(t.nodes[n])[i], depth - 1) : i \in 1..4}

\* The slots of the nodes reachable from the root.
TreeNodes(t) == Below(t, t.m_pTreeRoot, MaxDepth)

\* The nodes reachable from the root that have children.
SplitNodes(t) == {n \in TreeNodes(t) : HasChildren(t.nodes[n])}

\* How many of the four children of the node n have the point in their bounds.
ChildrenContaining(t, n, p) ==
  Cardinality({i \in 1..4 :
     /\ ChildPointers(t.nodes[n])[i] # NULL
     /\ Contains(t.nodes[ChildPointers(t.nodes[n])[i]].m_regionBounds, p)})

Max(S) == CHOOSE x \in S : \A y \in S : y <= x

\* The number of child pointers from the slot n down to its deepest
\* descendant, counted up to fuel.
RECURSIVE Depth(_, _, _)
Depth(t, n, fuel) ==
  IF fuel = 0 \/ ~HasChildren(t.nodes[n]) THEN 0
  ELSE 1 + Max({Depth(t, ChildPointers(t.nodes[n])[i], fuel - 1) : i \in 1..4})

\* Two different children of one node are the Leaves of p and of q.
SiblingLeaves(t, p, q) ==
  \E n \in SplitNodes(t) : \E i, j \in 1..4 :
    /\ i # j
    /\ t.nodes[ChildPointers(t.nodes[n])[i]].m_nodeType = "Leaf"
    /\ t.nodes[ChildPointers(t.nodes[n])[i]].m_point = p
    /\ t.nodes[ChildPointers(t.nodes[n])[j]].m_nodeType = "Leaf"
    /\ t.nodes[ChildPointers(t.nodes[n])[j]].m_point = q

\* The node the descent of CNode::Find from the root ends at for the point.
FoundNode(t, point) == t.nodes[CNodeFind(t, t.m_pTreeRoot, point).pFoundNode]

\* A slot other than the root's holds a Leaf.
LeafBelowRoot(t) ==
  \E i \in 1..Len(t.nodes) : i # t.m_pTreeRoot /\ t.nodes[i].m_nodeType = "Leaf"

\* The assertions of the pool (AllocatePage, AllocateNode and its callers).
PoolAssertions == {496, 510, 519, 530, 531, 551}

\* The assertions of SanityCheckChild_Recursive.
SanityAssertions == 389..490

\* The orders in which the coordinates of the set S can be inserted.
InsertionOrders(S) ==
  {s \in [1..Cardinality(S) -> S] : \A i, j \in DOMAIN s : s[i] = s[j] => i = j}

\* Insert called with points[1], points[2], ... in turn: the tree and the
\* results returned.
RECURSIVE InsertAll(_, _)
InsertAll(t, points) ==
  IF points = << >> THEN [tree |-> t, results |-> << >>]
  ELSE With(Insert(t, Head(points)), LAMBDA first :
       With(InsertAll(first.tree, Tail(points)), LAMBDA rest :
         [tree |-> rest.tree, results |-> <<first.result>> \o rest.results]))

----------------------------------------------------------------------------
\* The properties

\* C1 (round trip, absence): in every state of a built tree, Find(p) returns
\* Success for the coordinates p passed to Insert since the last Reset (or
\* the construction) and NoEntry for every other coordinate of the domain.
C1_RoundTrip ==
  Built(qt) =>
    \A p \in Coords :
      Find(qt, p).result = IF p \in inserted THEN "Success" ELSE "NoEntry"

\* Several coordinates are in a tree that was reset before, and a Find has
\* just found one of them.
C1_Witness ==
  /\ lastOp = "Find"
  /\ lastResult = "Success"
  /\ Cardinality(inserted) >= 2
  /\ nResets >= 1

\* C2 (SanityCheck passes): no assertion of SanityCheck fails on a tree
\* reached by Reset and Insert calls, whatever the coordinates inserted.
C2_SanityCheckPasses ==
  Built(qt) => SanityCheckChild_Recursive(qt, qt.m_pTreeRoot) = NoFailure

\* C3 (allocation never fails): for every page size > 0 the assertions of the
\* pool hold on every allocation of the constructor, Reset and Insert, and
\* the constructor yields a tree.
C3_AllocationNeverFails ==
  /\ qt.failed \notin PoolAssertions
  /\ lastOp # "none" => Built(qt)

\* C4 (duplicate rejection): an Insert returns DuplicateEntry when its
\* coordinate was inserted since the last Reset and Success when it was not,
\* and an Insert that returns DuplicateEntry leaves the nodes, the free-list
\* head and the pages as they were.
C4_DuplicateRejection ==
  [][ lastOp' = "Insert" =>
        /\ lastResult' = IF inserted' = inserted THEN "DuplicateEntry" ELSE "Success"
        /\ lastResult' = "DuplicateEntry" => qt' = qt ]_vars

\* An Insert has just returned DuplicateEntry on a tree whose root has
\* children.
C4_Witness ==
  /\ lastOp = "Insert"
  /\ lastResult = "DuplicateEntry"
  /\ Built(qt)
  /\ HasChildren(Root(qt))

\* C5 (Reset clears everything): right after a Reset the root is a childless
\* Region with the blank point whose bounds are the whole domain, and Find
\* returns NoEntry for every coordinate.
C5_ResetClears ==
  (lastOp = "Reset" /\ qt.failed = NoFailure) =>
    /\ Root(qt).m_nodeType = "Region"
    /\ ~HasChildren(Root(qt))
    /\ Root(qt).m_pNorthEast = NULL
    /\ Root(qt).m_pSouthEast = NULL
    /\ Root(qt).m_pSouthWest = NULL
    /\ Root(qt).m_point = CCoordinate0
    /\ Root(qt).m_regionBounds =
         CBounds(CCoordinate(0, 0), CCoordinate(maxValue, maxValue))
    /\ \A p \in Coords : Find(qt, p).result = "NoEntry"

\* A Reset has just discarded a tree that held several coordinates: the slots
\* still hold the leaves of that tree.
C5_Witness ==
  /\ lastOp = "Reset"
  /\ qt.failed = NoFailure
  /\ LeafBelowRoot(qt)

\* C6 as stated (the root is always a Region).
C6_RootAlwaysRegion ==
  (Built(qt) /\ qt.failed = NoFailure) => Root(qt).m_nodeType = "Region"

\* C6, amended: the root is a Leaf exactly while one coordinate has been
\* inserted since the last Reset, and then it holds that coordinate; in every
\* other state of a built tree it is a Region.
C6_RootLeafIffOnePoint ==
  Built(qt) =>
    IF Cardinality(inserted) = 1
      THEN Root(qt).m_nodeType = "Leaf" /\ Root(qt).m_point \in inserted
      ELSE Root(qt).m_nodeType = "Region"

\* The first Insert after a Reset has turned the root into a Leaf.
C6_Witness ==
  /\ Built(qt)
  /\ lastOp = "Insert"
  /\ nResets >= 1
  /\ Root(qt).m_nodeType = "Leaf"
  /\ ~HasChildren(Root(qt))

\* C7 (multi-page allocator): a tree built with a small page size and the
\* tree built with one large page, given the same calls, return the same
\* result from every Insert and Find, fail no assertion the other does not
\* fail, and hold the same logical tree after every call; the large page is
\* the only page of its tree.
C7_PageSizeIndependent ==
  (Built(qt) /\ Built(ref)) =>
    /\ lastResult = refResult
    /\ qt.failed = ref.failed
    /\ Logical(qt, qt.m_pTreeRoot) = Logical(ref, ref.m_pTreeRoot)
    /\ FindOutcomes(qt) = FindOutcomes(ref)
    /\ ref.m_pages = 1

\* The small pages have forced several page allocations and the tree holds
\* several coordinates.
C7_Witness ==
  /\ Built(qt)
  /\ qt.m_pages >= 3
  /\ ref.m_pages = 1
  /\ Cardinality(inserted) >= 2
  /\ lastOp = "Find"
  /\ lastResult = "Success"

\* C8 (order independence): whatever the order in which the coordinates
\* inserted since the last Reset are inserted into a freshly reset tree,
\* every Insert returns Success and Find returns, for every coordinate of
\* the domain, what it returns now.
C8_OrderIndependent ==
  (Built(qt) /\ qt.failed = NoFailure) =>
    \A s \in InsertionOrders(inserted) :
      LET r == InsertAll(Reset(qt), s)
      IN  /\ \A i \in DOMAIN s : r.results[i] = "Success"
          /\ FindOutcomes(r.tree) = FindOutcomes(qt)

\* As many coordinates as a run may insert have been inserted, so that more
\* than one order is compared.
C8_Witness ==
  /\ Built(qt)
  /\ qt.failed = NoFailure
  /\ Cardinality(inserted) = MaxInserts
  /\ lastOp = "Insert"

\* C9 (OutOfRegionBounds is unreachable): Insert returns Success or
\* DuplicateEntry, Find returns Success or NoEntry, and the assertions of
\* both that the bounds of the root contain the point never fail: the bounds
\* of the root contain every coordinate of the domain.
C9_NeverOutOfRegionBounds ==
  /\ lastOp = "Insert" => lastResult \in {"Success", "DuplicateEntry"}
  /\ lastOp = "Find" => lastResult \in {"Success", "NoEntry"}
  /\ qt.failed \notin {313, 370}
  /\ Built(qt) => \A p \in Coords : Contains(Root(qt).m_regionBounds, p)

\* Insert and Find have been called with the corners of the domain.
C9_Witness ==
  /\ lastOp = "Find"
  /\ CCoordinate(0, 0) \in inserted
  /\ CCoordinate(maxValue, maxValue) \in inserted

\* C10 (Find is read-only): a Find leaves the nodes (their free-list links
\* included), the root, the free-list head and the pages as they were, and
\* the same Find made again returns the same result.
C10_FindReadOnly ==
  [][ lastOp' = "Find" =>
        /\ qt' = qt
        /\ ref' = ref
        /\ \E p \in Coords : /\ lastResult' = Find(qt, p).result
                             /\ lastResult' = Find(qt', p).result ]_vars

\* A Find has just run on a tree of several pages whose root has children.
C10_Witness ==
  /\ lastOp = "Find"
  /\ Built(qt)
  /\ HasChildren(Root(qt))
  /\ qt.m_pages >= 2

\* C11 (exact partition): every coordinate in the bounds of a node that has
\* children is in the bounds of exactly one of its four children, and a
\* coordinate outside them is in the bounds of none; the assertions of the
\* descent that the SW child contains the point (lines 214 and 288) never
\* fail.
C11_ExactPartition ==
  /\ qt.failed \notin {214, 288}
  /\ \A n \in SplitNodes(qt) : \A p \in Coords :
       ChildrenContaining(qt, n, p) =
         IF Contains(qt.nodes[n].m_regionBounds, p) THEN 1 ELSE 0

\* The descent of an Insert has just gone through two levels of children to
\* a coordinate the tree holds.
C11_Witness ==
  /\ lastOp = "Insert"
  /\ lastResult = "DuplicateEntry"
  /\ \E n \in SplitNodes(qt) : n # qt.m_pTreeRoot

\* C12 (the collision loop terminates): an Insert whose point lands on a Leaf
\* that holds another point returns after at least one and at most W calls of
\* Split (four allocations each), without the loop being cut and without the
\* assertion of line 341 failing, and leaves the two points in the Leaves of
\* two different children of one node; after every Insert no node is more
\* than W levels below the root.
C12_CollisionLoopTerminates ==
  [][ lastOp' = "Insert" =>
        /\ qt'.failed \notin {LoopCapHit, 341}
        /\ Len(qt'.allocated) - Len(qt.allocated) <= 4 * W
        /\ Depth(qt', qt'.m_pTreeRoot, MaxDepth) <= W
        /\ \A p \in inserted' \ inserted :
             (FoundNode(qt, p).m_nodeType = "Leaf") =>
               /\ Len(qt'.allocated) - Len(qt.allocated) >= 4
               /\ SiblingLeaves(qt', p, FoundNode(qt, p).m_point) ]_vars

\* An Insert has just made W calls of Split to separate two coordinates.
C12_Witness ==
  /\ lastOp = "Insert"
  /\ Cardinality(inserted) = 2
  /\ Len(qt.allocated) = 1 + 4 * W
  /\ Depth(qt, qt.m_pTreeRoot, MaxDepth) = W

\* C13 (Split only on a childless node of at least two units per axis): the
\* assertions of Split that the four child pointers are null (lines 231-234)
\* never fail, and every node that has children, that is every node Split
\* was called on since the last Reset, has min.x < max.x and min.y < max.y.
C13_SplitPrecondition ==
  /\ qt.failed \notin {231, 232, 233, 234}
  /\ \A n \in SplitNodes(qt) :
       /\ qt.nodes[n].m_regionBounds.min.x < qt.nodes[n].m_regionBounds.max.x
       /\ qt.nodes[n].m_regionBounds.min.y < qt.nodes[n].m_regionBounds.max.y

\* Split has been called on a node of exactly two units per axis, the
\* smallest it may be called on.
C13_Witness ==
  /\ lastOp = "Insert"
  /\ \E n \in SplitNodes(qt) :
       /\ qt.nodes[n].m_regionBounds.max.x = qt.nodes[n].m_regionBounds.min.x + 1
       /\ qt.nodes[n].m_regionBounds.max.y = qt.nodes[n].m_regionBounds.min.y + 1

\* How many of the four child pointers of a node are not null.
ChildCount(node) == Cardinality({i \in 1..4 : ChildPointers(node)[i] # NULL})

\* C14 (node shape): every node reachable from the root is a Leaf without
\* children whose bounds contain its point, or a Region whose point is the
\* blank (0,0) and which has no children or four; none is Undefined.
C14_NodeShape ==
  \A n \in TreeNodes(qt) :
    \/ /\ qt.nodes[n].m_nodeType = "Leaf"
       /\ ChildCount(qt.nodes[n]) = 0
       /\ Contains(qt.nodes[n].m_regionBounds, qt.nodes[n].m_point)
    \/ /\ qt.nodes[n].m_nodeType = "Region"
       /\ qt.nodes[n].m_point = CCoordinate0
       /\ ChildCount(qt.nodes[n]) \in {0, 4}

\* The tree holds the three shapes at once: a Region with four children, a
\* childless Region and a Leaf whose point is not the blank one.
C14_Witness ==
  /\ lastOp = "Insert"
  /\ \E n \in TreeNodes(qt) : ChildCount(qt.nodes[n]) = 4
  /\ \E n \in TreeNodes(qt) :
       qt.nodes[n].m_nodeType = "Region" /\ ChildCount(qt.nodes[n]) = 0
  /\ \E n \in TreeNodes(qt) :
       qt.nodes[n].m_nodeType = "Leaf" /\ qt.nodes[n].m_point # CCoordinate0

\* The values Split computes from the scalars min and max of one axis, in
\* the integers (no reduction modulo 2^W): max - min, min + (max - min) / 2
\* and centerMin + 1.
SplitScalars(min, max) ==
  [ diff      |-> max - min,
    centerMin |-> min + (max - min) \div 2,
    centerMax |-> min + (max - min) \div 2 + 1 ]

\* None of the values Split computes for the bounds b leaves the range of
\* TScalar.
NoWrap(b) ==
  \A axis \in {SplitScalars(b.min.x, b.max.x), SplitScalars(b.min.y, b.max.y)} :
    axis.diff \in TScalar /\ axis.centerMin \in TScalar /\ axis.centerMax \in TScalar

\* The bounds of the four children of a node of bounds b, computed in the
\* integers.
SplitBoundsExact(b) ==
  LET sx == SplitScalars(b.min.x, b.max.x)
      sy == SplitScalars(b.min.y, b.max.y)
  IN  << CBounds(b.min, CCoordinate(sx.centerMin, sy.centerMin)),
         CBounds(CCoordinate(sx.centerMax, b.min.y), CCoordinate(b.max.x, sy.centerMin)),
         CBounds(CCoordinate(sx.centerMax, sy.centerMax), b.max),
         CBounds(CCoordinate(b.min.x, sy.centerMax), CCoordinate(sx.centerMin, b.max.y)) >>

\* C15 (bounds well ordered, no wraparound): every node reachable from the
\* root has min.x <= max.x and min.y <= max.y, and for every node Split was
\* called on, max - min, min + (max - min) / 2 and centerMin + 1 computed in
\* the integers stay within the range of the scalar, so that the bounds its
\* children were given are those of the computation without reduction.
C15_NoWraparound ==
  /\ \A n \in TreeNodes(qt) :
       /\ qt.nodes[n].m_regionBounds.min.x <= qt.nodes[n].m_regionBounds.max.x
       /\ qt.nodes[n].m_regionBounds.min.y <= qt.nodes[n].m_regionBounds.max.y
  /\ \A n \in SplitNodes(qt) :
       /\ NoWrap(qt.nodes[n].m_regionBounds)
       /\ \A i \in 1..4 :
            qt.nodes[ChildPointers(qt.nodes[n])[i]].m_regionBounds =
              SplitBoundsExact(qt.nodes[n].m_regionBounds)[i]

\* Split has been called on the two-unit node at the upper end of the range,
\* where centerMin + 1 is the largest scalar.
C15_Witness ==
  /\ lastOp = "Insert"
  /\ \E n \in SplitNodes(qt) :
       /\ qt.nodes[n].m_regionBounds.max = CCoordinate(maxValue, maxValue)
       /\ SplitScalars(qt.nodes[n].m_regionBounds.min.x,
                       qt.nodes[n].m_regionBounds.max.x).centerMax = maxValue

\* C16 (zero bounds are only a sentinel): no node reachable from the root
\* has the bounds min = (0,0), max = (0,0), which line 390 of SanityCheck
\* takes for those of a node that was never initialized.
C16_NoZeroBounds ==
  \A n \in TreeNodes(qt) :
    qt.nodes[n].m_regionBounds # CBounds(CCoordinate0, CCoordinate0)

\* The slots of the free list from the slot n on, following pPoolNext.
RECURSIVE Chain(_, _, _)
Chain(t, n, fuel) ==
  IF n = NULL \/ fuel = 0 THEN << >>
  ELSE <<n>> \o Chain(t, t.nodes[n].pPoolNext, fuel - 1)

\* The unused slots: the free list from its head on.
FreeList(t) == Chain(t, t.m_pPoolHead, Len(t.nodes))

\* ceil(n / d)
CeilDiv(n, d) == (n + d - 1) \div d

\* C17 as stated (the pool grows only when the free list is exhausted): an
\* allocation takes a new page only if no slot is left on the free list, and
\* after n allocations since the construction, without a Reset, the pool
\* holds ceil(n / pageSize) pages, n being the allocations made so far or one
\* more.
C17_GrowsOnlyWhenExhausted ==
  (Built(qt) /\ qt.failed = NoFailure /\ nResets = 0) =>
    /\ qt.m_pages = CeilDiv(Len(qt.allocated), qt.m_pageSize)
    /\ AllocateNode(qt).tree.m_pages = CeilDiv(Len(qt.allocated) + 1, qt.m_pageSize)
    /\ AllocateNode(qt).tree.m_pages > qt.m_pages => Len(FreeList(qt)) = 0

\* C17, amended: an allocation takes a new page exactly when a single slot
\* is left on the free list (or the pool has no page yet), so that a slot is
\* always left once the constructor has returned; after n allocations since
\* the construction, without a Reset, the pool holds n \div pageSize + 1
\* pages, n being the allocations made so far or one more.
C17_GrowsAtLastSlot ==
  /\ (lastOp # "none" /\ nResets = 0) =>
       qt.m_pages = Len(qt.allocated) \div qt.m_pageSize + 1
  /\ (Built(qt) /\ qt.failed = NoFailure) =>
       /\ Len(FreeList(qt)) >= 1
       /\ AllocateNode(qt).tree.failed = NoFailure
       /\ AllocateNode(qt).tree.m_pages =
            IF Len(FreeList(qt)) = 1 THEN qt.m_pages + 1 ELSE qt.m_pages
       /\ nResets = 0 =>
            AllocateNode(qt).tree.m_pages =
              (Len(qt.allocated) + 1) \div qt.m_pageSize + 1

\* The number of allocations made since the construction is a multiple of
\* the page size, and the pool already holds the page of the next one.
C17_Witness ==
  /\ Built(qt)
  /\ qt.failed = NoFailure
  /\ nResets = 0
  /\ lastOp = "Insert"
  /\ Len(qt.allocated) > 1
  /\ Len(qt.allocated) % qt.m_pageSize = 0
  /\ qt.m_pages = Len(qt.allocated) \div qt.m_pageSize + 1

\* C18 (pages are retained and reused across Reset): no call lowers the
\* number of pages; a Reset of a pool that has a page adds none; and while
\* the slots handed out since the last Reset are no more than were handed
\* out when a Reset was called, the pool has the pages it had at the last
\* Reset.
C18_PagesRetained ==
  [][ /\ qt'.m_pages >= qt.m_pages
      /\ (nResets' = nResets + 1 /\ qt.m_pages >= 1) => qt'.m_pages = qt.m_pages
      /\ (nResets' >= 1 /\ Len(qt'.allocated) <= beforeReset'.allocated) =>
           qt'.m_pages = beforeReset'.pages ]_vars

\* After a Reset the Inserts have split down to a unit cell again and taken
\* as many slots as the tree before the Reset had, in the pages it had.
C18_Witness ==
  /\ nResets >= 1
  /\ lastOp = "Insert"
  /\ Len(qt.allocated) = 1 + 4 * W
  /\ Len(qt.allocated) = beforeReset.allocated
  /\ qt.m_pages >= 2
  /\ qt.m_pages = beforeReset.pages

Range(s) == {s[i] : i \in DOMAIN s}

\* The number of nodes reached from the slot n, a slot counted as often as
\* it is reached.
RECURSIVE Size(_, _, _)
Size(t, n, fuel) ==
  IF n = NULL THEN 0
  ELSE IF fuel = 0 \/ ~HasChildren(t.nodes[n]) THEN 1
  ELSE 1 + Size(t, t.nodes[n].m_pNorthWest, fuel - 1)
         + Size(t, t.nodes[n].m_pNorthEast, fuel - 1)
         + Size(t, t.nodes[n].m_pSouthEast, fuel - 1)
         + Size(t, t.nodes[n].m_pSouthWest, fuel - 1)

\* C19 (no slot is live twice): the slots handed out since the last Reset
\* are pairwise distinct and are the slots of the nodes reachable from the
\* root, each reached once, none of them on the free list from its head on;
\* the next allocation returns a slot not handed out since the last Reset,
\* blank but for its free-list link, which is the link it had and becomes
\* the head.
C19_NoSlotLiveTwice ==
  (Built(qt) /\ qt.failed = NoFailure) =>
    /\ Cardinality(Range(qt.allocated)) = Len(qt.allocated)
    /\ TreeNodes(qt) = Range(qt.allocated)
    /\ Size(qt, qt.m_pTreeRoot, MaxDepth) = Cardinality(TreeNodes(qt))
    /\ TreeNodes(qt) \cap Range(FreeList(qt)) = {}
    /\ LET a == AllocateNode(qt)
       IN  /\ a.tree.failed = NoFailure
           /\ a.node \notin Range(qt.allocated)
           /\ a.node = qt.m_pPoolHead
           /\ a.tree.m_pPoolHead # NULL
           /\ a.tree.nodes[a.node] = [CNode EXCEPT !.pPoolNext = a.tree.m_pPoolHead]
           /\ qt.nodes[a.node].pPoolNext # NULL =>
                a.tree.nodes[a.node].pPoolNext = qt.nodes[a.node].pPoolNext

\* After a Reset a tree with children has been built in slots of the tree
\* before, a Leaf of which is still in a slot of the free list.
C19_Witness ==
  /\ nResets >= 1
  /\ lastOp = "Insert"
  /\ qt.failed = NoFailure
  /\ Len(qt.allocated) >= 5
  /\ \E n \in Range(FreeList(qt)) : qt.nodes[n].m_nodeType = "Leaf"

\* The coordinates inserted since the last Reset that the bounds b contain.
InsertedIn(b) == {p \in inserted : Contains(b, p)}

\* C20 (canonical shape): a node reachable from the root has children if and
\* only if its bounds contain at least two of the coordinates inserted since
\* the last Reset, is a Leaf if and only if they contain exactly one, which
\* it stores, and is a childless Region if and only if they contain none;
\* and the logical tree is the one every order of inserting these
\* coordinates into the reset tree gives.
C20_CanonicalShape ==
  (Built(qt) /\ qt.failed = NoFailure) =>
    /\ \A n \in TreeNodes(qt) :
         LET node == qt.nodes[n]
             held == InsertedIn(node.m_regionBounds)
         IN  /\ HasChildren(node) <=> Cardinality(held) >= 2
             /\ node.m_nodeType = "Leaf" <=> Cardinality(held) = 1
             /\ node.m_nodeType = "Leaf" => node.m_point \in held
             /\ (node.m_nodeType = "Region" /\ ~HasChildren(node))
                  <=> Cardinality(held) = 0
    /\ \A s \in InsertionOrders(inserted) :
         LET r == InsertAll(Reset(qt), s).tree
         IN  Logical(r, r.m_pTreeRoot) = Logical(qt, qt.m_pTreeRoot)

\* As many coordinates as a run may insert are in the tree, the last Insert
\* repeated one of them, and a node below the root has children.
C20_Witness ==
  /\ lastOp = "Insert"
  /\ lastResult = "DuplicateEntry"
  /\ Cardinality(inserted) = MaxInserts
  /\ \E n \in SplitNodes(qt) : n # qt.m_pTreeRoot

====
